---- MODULE Spec2Model ----
(***************************************************************************)
(* Plane changes of fabric.js (src/util/misc/planeChange.ts): the change   *)
(* of basis matrix between two coordinate planes, and the operations that  *)
(* send a point or an object from one plane to another.                    *)
(*                                                                         *)
(* Numbers are exact rationals <<n, d>> in lowest terms with d > 0; the    *)
(* pair <<0, 0>> stands for every non-finite value (Infinity, -Infinity,   *)
(* NaN) and absorbs every operation, as a division by zero does in the     *)
(* program.  The matrices and coordinates the model draws are dyadic, so   *)
(* the program's floating-point arithmetic is exact on them.               *)
(***************************************************************************)
EXTENDS Integers, Sequences, FiniteSets, TLC

VARIABLES
  nodes,    \* the scene: node id -> its transform fields and its group
  sent,     \* the last sendObjectToPlane call: arguments, state before, result
  calls,    \* number of sendObjectToPlane calls made so far
  canvas,   \* the canvas: its viewportTransform
  ptCall,   \* the last point call: arguments and result
  ptPrev,   \* the point call before the last
  refs,     \* number of Point objects allocated so far
  matCall   \* the last calcPlaneChangeMatrix calls: arguments and results

vars == <<nodes, sent, calls, canvas, ptCall, ptPrev, refs, matCall>>

\* ------------------------------------------------------------- bounds

\* Calls of sendObjectToPlane in one behaviour.
MaxCalls == 2

\* Point calls in one behaviour (a call allocates at most one Point).
MaxRefs == 2

\* ------------------------------------------------------------ numbers

\* An absent node reference, or a node argument that was not passed (undefined).
UNDEF == "undefined"

\* A matrix argument that was not passed (undefined).
NoMatrix == <<>>

RECURSIVE GCD(_, _)
GCD(a, b) == IF b = 0 THEN a ELSE GCD(b, a % b)

Abs(i) == IF i < 0 THEN -i ELSE i

NonFinite == <<0, 0>>

IsFinite(a) == a[2] # 0

RNorm(n, d) ==
  IF d = 0 THEN NonFinite
  ELSE LET g == GCD(Abs(n), Abs(d))
           s == IF d < 0 THEN -1 ELSE 1
       IN  <<(s * n) \div g, (s * d) \div g>>

R(i) == <<i, 1>>

RAdd(a, b) ==
  IF IsFinite(a) /\ IsFinite(b)
  THEN RNorm(a[1] * b[2] + b[1] * a[2], a[2] * b[2]) ELSE NonFinite

RNeg(a) == IF IsFinite(a) THEN <<-a[1], a[2]>> ELSE NonFinite

RSub(a, b) == RAdd(a, RNeg(b))

RMul(a, b) ==
  IF IsFinite(a) /\ IsFinite(b)
  THEN RNorm(a[1] * b[1], a[2] * b[2]) ELSE NonFinite

\* a / b as the program's numbers divide: by zero the result is not finite.
RDiv(a, b) ==
  IF IsFinite(a) /\ IsFinite(b)
  THEN RNorm(a[1] * b[2], a[2] * b[1]) ELSE NonFinite

\* ----------------------------------------------------------- matrices

\* A TMat2D [a, b, c, d, e, f]: the linear part (a c; b d), the offset (e, f).
Mat(a, b, c, d, e, f) == <<R(a), R(b), R(c), R(d), R(e), R(f)>>

iMatrix == Mat(1, 0, 0, 1, 0, 0)

MatFinite(m) == \A i \in 1..6 : IsFinite(m[i])

Det(t) == RSub(RMul(t[1], t[4]), RMul(t[2], t[3]))

Invertible(t) == MatFinite(t) /\ Det(t) # R(0)

\* a . b: b is applied first, then a.
multiplyTransformMatrices(a, b) ==
  << RAdd(RMul(a[1], b[1]), RMul(a[3], b[2])),
     RAdd(RMul(a[2], b[1]), RMul(a[4], b[2])),
     RAdd(RMul(a[1], b[3]), RMul(a[3], b[4])),
     RAdd(RMul(a[2], b[3]), RMul(a[4], b[4])),
     RAdd(RAdd(RMul(a[1], b[5]), RMul(a[3], b[6])), a[5]),
     RAdd(RAdd(RMul(a[2], b[5]), RMul(a[4], b[6])), a[6]) >>

\* The inverse of t; of a singular t, a matrix of non-finite numbers.
invertTransform(t) ==
  LET a  == RDiv(R(1), Det(t))
      r1 == RMul(a, t[4])
      r2 == RNeg(RMul(a, t[2]))
      r3 == RNeg(RMul(a, t[3]))
      r4 == RMul(a, t[1])
      x  == RAdd(RMul(r1, t[5]), RMul(r3, t[6]))
      y  == RAdd(RMul(r2, t[5]), RMul(r4, t[6]))
  IN  <<r1, r2, r3, r4, RNeg(x), RNeg(y)>>

\* A parameter with the default value iMatrix: undefined takes the default.
OrIdentity(m) == IF m = NoMatrix THEN iMatrix ELSE m

\* The mutant of calcPlaneChangeMatrix that forgets to invert `to`.
calcPlaneChangeMatrixNoInvert(from, to) ==
  multiplyTransformMatrices(OrIdentity(to), OrIdentity(from))

calcPlaneChangeMatrix(from, to) ==
  multiplyTransformMatrices(invertTransform(OrIdentity(to)), OrIdentity(from))

\* cos and sin of an angle in degrees that is a multiple of 90.
Quadrant(angle) == (angle % 360) \div 90
Cos(angle) == CASE Quadrant(angle) = 0 -> 1 [] Quadrant(angle) = 2 -> -1 [] OTHER -> 0
Sin(angle) == CASE Quadrant(angle) = 1 -> 1 [] Quadrant(angle) = 3 -> -1 [] OTHER -> 0

\* The matrix of a translation by (x, y), a rotation by angle, a scale (sx, sy).
composeMatrix(x, y, angle, sx, sy) ==
  << RMul(R(Cos(angle)), sx), RMul(R(Sin(angle)), sx),
     RMul(R(-Sin(angle)), sy), RMul(R(Cos(angle)), sy), x, y >>

\* The plane matrices the callers pass: identity, translation, rotation, scale.
PlaneMatrices ==
  { composeMatrix(R(t), R(t), a, R(s), R(1)) :
      t \in {0, 30}, a \in {0, 90, 180}, s \in {1, 2} }

\* -------------------------------------------------------- scene nodes

NodeIds == {"obj", "g1", "g2"}

\* The node's own matrix, composed from its position, angle and scale.
calcOwnMatrix(n) == composeMatrix(n.left, n.top, n.angle, n.scaleX, n.scaleY)

\* The node's transform from the root: its ancestors' matrices, then its own.
RECURSIVE calcTransformMatrix(_, _)
calcTransformMatrix(ns, id) ==
  IF ns[id].group = UNDEF THEN calcOwnMatrix(ns[id])
  ELSE multiplyTransformMatrices(calcTransformMatrix(ns, ns[id].group),
                                 calcOwnMatrix(ns[id]))

\* The node's rotation from the root: its ancestors' angles plus its own.
RECURSIVE getTotalAngle(_, _)
getTotalAngle(ns, id) ==
  IF ns[id].group = UNDEF THEN ns[id].angle
  ELSE getTotalAngle(ns, ns[id].group) + ns[id].angle

RAbs(a) == IF a[1] < 0 THEN RNeg(a) ELSE a

\* Position, rotation angle and scale of a matrix whose first column lies on
\* an axis (no skew): scaleX is that column's length, scaleY = det / scaleX.
qrDecompose(m) ==
  LET scaleX == RAdd(RAbs(m[1]), RAbs(m[2]))
  IN  [ angle      |-> CASE m[2] = R(0) /\ m[1][1] > 0 -> 0
                         [] m[1] = R(0) /\ m[2][1] > 0 -> 90
                         [] m[2] = R(0) /\ m[1][1] < 0 -> 180
                         [] OTHER -> -90,
        scaleX     |-> scaleX,
        scaleY     |-> RDiv(Det(m), scaleX),
        translateX |-> m[5],
        translateY |-> m[6] ]

\* Sets the node's position and scale from the matrix, and its angle to `angle`.
applyTransformToObject(n, transform, angle) ==
  LET d == qrDecompose(transform)
  IN  [n EXCEPT !.left = d.translateX, !.top = d.translateY,
                !.scaleX = d.scaleX, !.scaleY = d.scaleY, !.angle = angle]

\* from?.calcTransformMatrix()
PlaneMatrix(ns, ref) == IF ref = UNDEF THEN NoMatrix ELSE calcTransformMatrix(ns, ref)

\* from?.getTotalAngle() || 0
PlaneAngle(ns, ref) == IF ref = UNDEF THEN 0 ELSE getTotalAngle(ns, ref)

\* The mutant of PlaneArgs that takes an undefined `from` as not passed.
PlaneArgsByValue(ns, object, nargs, arg1, arg2) ==
  IF nargs = 3
  THEN [from |-> IF arg1 # UNDEF THEN arg1 ELSE ns[object].group, to |-> arg2]
  ELSE [from |-> ns[object].group, to |-> arg1]

\* The source and the destination plane of a call with nargs arguments.
PlaneArgs(ns, object, nargs, arg1, arg2) ==
  IF nargs = 3 THEN [from |-> arg1, to |-> arg2]
  ELSE [from |-> ns[object].group, to |-> arg1]

\* The mutant of ObjectAngle that adds the source angle and subtracts the
\* destination's.
ObjectAngleSwapped(ns, object, from, to) ==
  ns[object].angle + PlaneAngle(ns, from) - PlaneAngle(ns, to)

\* The angle given to the object.
ObjectAngle(ns, object, from, to) ==
  ns[object].angle - PlaneAngle(ns, from) + PlaneAngle(ns, to)

\* The mutant of sendObjectToPlane that also places the object in `to`.
sendObjectToPlaneReparent(ns, object, nargs, arg1, arg2) ==
  LET p     == PlaneArgs(ns, object, nargs, arg1, arg2)
      t     == calcPlaneChangeMatrix(PlaneMatrix(ns, p.from), PlaneMatrix(ns, p.to))
      angle == ObjectAngle(ns, object, p.from, p.to)
      moved == applyTransformToObject(ns[object],
                 multiplyTransformMatrices(t, calcOwnMatrix(ns[object])), angle)
  IN  [ nodes |-> [ns EXCEPT ![object] = [moved EXCEPT !.group = p.to]],
        ret   |-> [transform |-> t, angle |-> angle] ]

\* The scene after the call, and the value the call returns.
sendObjectToPlane(ns, object, nargs, arg1, arg2) ==
  LET p     == PlaneArgs(ns, object, nargs, arg1, arg2)
      t     == calcPlaneChangeMatrix(PlaneMatrix(ns, p.from), PlaneMatrix(ns, p.to))
      angle == ObjectAngle(ns, object, p.from, p.to)
  IN  [ nodes |-> [ns EXCEPT ![object] =
                     applyTransformToObject(ns[object],
                       multiplyTransformMatrices(t, calcOwnMatrix(ns[object])),
                       angle)],
        ret   |-> [transform |-> t, angle |-> angle] ]

\* The groups of the scene: g1 lies on the canvas, g2 on the canvas or in g1.
Planes == {"g1", "g2"}

Node(left, top, angle, scaleX, scaleY, group) ==
  [ left |-> R(left), top |-> R(top), angle |-> angle,
    scaleX |-> R(scaleX), scaleY |-> R(scaleY), group |-> group ]

Scenes ==
  { [id \in NodeIds |->
       CASE id = "g1"  -> Node(30, 30, g1[1], g1[2], 1, UNDEF)
         [] id = "g2"  -> Node(10, 0, a2, 1, 2, p2)
         [] id = "obj" -> Node(50, 50, a, 2, 1, p)] :
      g1 \in {<<0, 1>>, <<90, 2>>}, a2 \in {0, 90}, p2 \in {UNDEF, "g1"},
      a \in {0, 90}, p \in {UNDEF, "g1", "g2"} }

NoCall ==
  [ nargs |-> 0, arg1 |-> UNDEF, arg2 |-> UNDEF, placed |-> FALSE,
    ret |-> [transform |-> iMatrix, angle |-> 0] ]

\* sendObjectToPlane(obj), sendObjectToPlane(obj, to) and
\* sendObjectToPlane(obj, from, to), each argument a group or undefined.
SendObjectToPlane ==
  /\ calls < MaxCalls
  /\ \E nargs \in 1..3, arg1 \in Planes \cup {UNDEF}, arg2 \in Planes \cup {UNDEF} :
       /\ nargs = 1 => arg1 = UNDEF
       /\ nargs < 3 => arg2 = UNDEF
       /\ LET r == sendObjectToPlane(nodes, "obj", nargs, arg1, arg2)
          IN  /\ nodes' = r.nodes
              /\ sent' = [ nargs |-> nargs, arg1 |-> arg1, arg2 |-> arg2,
                           placed |-> FALSE, before |-> nodes, ret |-> r.ret ]
  /\ calls' = calls + 1
  /\ UNCHANGED <<canvas, ptCall, ptPrev, refs, matCall>>

\* The destination the caller passed to the last call.
Destination == IF sent.nargs = 3 THEN sent.arg2 ELSE sent.arg1

\* The caller places the object in the plane it has just sent it to.
Place ==
  /\ sent.nargs > 0
  /\ ~sent.placed
  /\ nodes' = [nodes EXCEPT !["obj"].group = Destination]
  /\ sent' = [sent EXCEPT !.placed = TRUE]
  /\ UNCHANGED <<calls, canvas, ptCall, ptPrev, refs, matCall>>

\* -------------------------------------------------------------- points

\* x, y and the identity of the Point object (0: a point of the caller's).
Pt(x, y, ref) == [x |-> x, y |-> y, ref |-> ref]

NoPoint == Pt(NonFinite, NonFinite, 0)

\* point.transform(t): a new Point.
transform(point, t, ref) ==
  Pt(RAdd(RAdd(RMul(t[1], point.x), RMul(t[3], point.y)), t[5]),
     RAdd(RAdd(RMul(t[2], point.x), RMul(t[4], point.y)), t[6]), ref)

Returned(point) == [kind |-> "return", point |-> point, message |-> <<>>]

Thrown(message) == [kind |-> "throw", point |-> NoPoint, message |-> message]

sendPointToPlane(point, from, to, ref) ==
  Returned(transform(point, calcPlaneChangeMatrix(from, to), ref))

\* The mutant of transformPointRelativeToCanvas that takes the equal-relation
\* return before it validates the relations.
transformPointRelativeToCanvasFastFirst(point, cv, relationBefore, relationAfter, ref) ==
  IF relationBefore = relationAfter THEN Returned(point)
  ELSE IF relationBefore # "child" /\ relationBefore # "sibling"
  THEN Thrown(<<"fabric.js: received bad argument ", relationBefore>>)
  ELSE IF relationAfter # "child" /\ relationAfter # "sibling"
  THEN Thrown(<<"fabric.js: received bad argument ", relationAfter>>)
  ELSE Returned(transform(point, IF relationAfter = "child"
                                 THEN invertTransform(cv.viewportTransform)
                                 ELSE cv.viewportTransform, ref))

\* The mutant of transformPointRelativeToCanvas without the equal-relation
\* return.
transformPointRelativeToCanvasNoFast(point, cv, relationBefore, relationAfter, ref) ==
  IF relationBefore # "child" /\ relationBefore # "sibling"
  THEN Thrown(<<"fabric.js: received bad argument ", relationBefore>>)
  ELSE IF relationAfter # "child" /\ relationAfter # "sibling"
  THEN Thrown(<<"fabric.js: received bad argument ", relationAfter>>)
  ELSE Returned(transform(point, IF relationAfter = "child"
                                 THEN invertTransform(cv.viewportTransform)
                                 ELSE cv.viewportTransform, ref))

\* The mutant of transformPointRelativeToCanvas that inverts the transform for
\* the other direction.
transformPointRelativeToCanvasSwapped(point, cv, relationBefore, relationAfter, ref) ==
  IF relationBefore # "child" /\ relationBefore # "sibling"
  THEN Thrown(<<"fabric.js: received bad argument ", relationBefore>>)
  ELSE IF relationAfter # "child" /\ relationAfter # "sibling"
  THEN Thrown(<<"fabric.js: received bad argument ", relationAfter>>)
  ELSE IF relationBefore = relationAfter THEN Returned(point)
  ELSE Returned(transform(point, IF relationAfter = "sibling"
                                 THEN invertTransform(cv.viewportTransform)
                                 ELSE cv.viewportTransform, ref))

transformPointRelativeToCanvas(point, cv, relationBefore, relationAfter, ref) ==
  IF relationBefore # "child" /\ relationBefore # "sibling"
  THEN Thrown(<<"fabric.js: received bad argument ", relationBefore>>)
  ELSE IF relationAfter # "child" /\ relationAfter # "sibling"
  THEN Thrown(<<"fabric.js: received bad argument ", relationAfter>>)
  ELSE IF relationBefore = relationAfter THEN Returned(point)
  ELSE Returned(transform(point, IF relationAfter = "child"
                                 THEN invertTransform(cv.viewportTransform)
                                 ELSE cv.viewportTransform, ref))

\* The relation values callers pass: the two of ObjectRelation, and another.
Relations == {"child", "sibling", "parent"}

\* A matrix no inverse exists of.
Singular == Mat(1, 0, 0, 0, 0, 0)

ViewportTransforms ==
  { iMatrix, Singular,
    composeMatrix(R(30), R(10), 0, R(2), R(2)),
    composeMatrix(R(30), R(0), 90, R(1), R(2)) }

CallerPoints == { Pt(R(50), R(50), 0), Pt(R(20), R(-10), 0) }

\* The points a caller holds: its own, and the one the last call returned.
HeldPoints ==
  CallerPoints \cup (IF ptCall.ret.kind = "return" /\ ptCall.op # "none"
                     THEN {ptCall.ret.point} ELSE {})

NoPointCall ==
  [ op |-> "none", point |-> NoPoint, before |-> UNDEF, after |-> UNDEF,
    from |-> NoMatrix, to |-> NoMatrix, ret |-> Thrown(<<>>) ]

TransformPointRelativeToCanvas ==
  /\ refs < MaxRefs
  /\ \E point \in HeldPoints, relationBefore \in Relations, relationAfter \in Relations :
       ptCall' = [ op |-> "transformPointRelativeToCanvas", point |-> point,
                   before |-> relationBefore, after |-> relationAfter,
                   from |-> NoMatrix, to |-> NoMatrix,
                   ret |-> transformPointRelativeToCanvas(point, canvas,
                             relationBefore, relationAfter, refs + 1) ]
  /\ ptPrev' = ptCall
  /\ refs' = refs + 1
  /\ UNCHANGED <<nodes, sent, calls, canvas, matCall>>

PointPlanes == { NoMatrix, composeMatrix(R(30), R(10), 90, R(2), R(1)) }

SendPointToPlane ==
  /\ refs < MaxRefs
  /\ \E point \in HeldPoints, from \in PointPlanes, to \in PointPlanes :
       ptCall' = [ op |-> "sendPointToPlane", point |-> point,
                   before |-> UNDEF, after |-> UNDEF, from |-> from, to |-> to,
                   ret |-> sendPointToPlane(point, from, to, refs + 1) ]
  /\ ptPrev' = ptCall
  /\ refs' = refs + 1
  /\ UNCHANGED <<nodes, sent, calls, canvas, matCall>>

\* ------------------------------------------------ plane change matrices

NoMatrixCall ==
  [ n |-> 0, from |-> NoMatrix, to |-> NoMatrix, there |-> iMatrix, back |-> iMatrix ]

MatrixArgs == PlaneMatrices \cup {NoMatrix}

\* calcPlaneChangeMatrix(from, to), each argument a matrix or omitted.
CalcPlaneChangeMatrix ==
  /\ matCall.n = 0
  /\ \E from \in MatrixArgs, to \in MatrixArgs :
       matCall' = [ n |-> 1, from |-> from, to |-> to,
                    there |-> calcPlaneChangeMatrix(from, to), back |-> iMatrix ]
  /\ UNCHANGED <<nodes, sent, calls, canvas, ptCall, ptPrev, refs>>

\* calcPlaneChangeMatrix with the arguments of the last call exchanged.
CalcPlaneChangeMatrixBack ==
  /\ matCall.n = 1
  /\ matCall' = [ matCall EXCEPT !.n = 2,
                    !.back = calcPlaneChangeMatrix(matCall.to, matCall.from) ]
  /\ UNCHANGED <<nodes, sent, calls, canvas, ptCall, ptPrev, refs>>

\* ------------------------------------------------------- specifications

DefaultScene == CHOOSE sc \in Scenes : TRUE

InitObject ==
  /\ nodes \in Scenes
  /\ sent = NoCall @@ [before |-> nodes]
  /\ calls = 0
  /\ canvas = [viewportTransform |-> iMatrix]
  /\ ptCall = NoPointCall /\ ptPrev = NoPointCall /\ refs = 0
  /\ matCall = NoMatrixCall

NextObject == SendObjectToPlane \/ Place

SpecObject == InitObject /\ [][NextObject]_vars

InitPoint ==
  /\ nodes = DefaultScene
  /\ sent = NoCall @@ [before |-> nodes]
  /\ calls = 0
  /\ canvas \in { [viewportTransform |-> t] : t \in ViewportTransforms }
  /\ ptCall = NoPointCall /\ ptPrev = NoPointCall /\ refs = 0
  /\ matCall = NoMatrixCall

NextPoint == TransformPointRelativeToCanvas \/ SendPointToPlane

SpecPoint == InitPoint /\ [][NextPoint]_vars

InitMatrix ==
  /\ nodes = DefaultScene
  /\ sent = NoCall @@ [before |-> nodes]
  /\ calls = 0
  /\ canvas = [viewportTransform |-> iMatrix]
  /\ ptCall = NoPointCall /\ ptPrev = NoPointCall /\ refs = 0
  /\ matCall = NoMatrixCall

NextMatrix == CalcPlaneChangeMatrix \/ CalcPlaneChangeMatrixBack

SpecMatrix == InitMatrix /\ [][NextMatrix]_vars

\* ------------------------------------------------------------- claims

\* What the last sendObjectToPlane call had for source and destination plane:
\* with three arguments the two passed, otherwise the object's group and the
\* argument passed.
SentFrom == IF sent.nargs = 3 THEN sent.arg1 ELSE sent.before["obj"].group
SentTo == IF sent.nargs = 3 THEN sent.arg2 ELSE sent.arg1

\* The cumulative transform of a plane before the last call, the identity for
\* the root.
CumulativeBefore(ref) ==
  IF ref = UNDEF THEN iMatrix ELSE calcTransformMatrix(sent.before, ref)

\* The cumulative angle of a plane before the last call, 0 for the root.
AngleBefore(ref) == IF ref = UNDEF THEN 0 ELSE getTotalAngle(sent.before, ref)

\* C1: after sendObjectToPlane(node, oldParent, newParent) on a node that lies
\* in oldParent, and the caller placing the node in newParent, the node's
\* transform from the root is the one it had before the call.
C1_VisualInvariance ==
  (sent.nargs = 3 /\ sent.placed /\ sent.before["obj"].group = sent.arg1)
    => calcTransformMatrix(nodes, "obj") = calcTransformMatrix(sent.before, "obj")

\* C2: calcPlaneChangeMatrix(X, X) is the identity matrix for every invertible
\* X, and when both arguments are omitted.
C2_IdentityLaw ==
  (matCall.n >= 1 /\ matCall.from = matCall.to
     /\ (matCall.from = NoMatrix \/ Invertible(matCall.from)))
    => matCall.there = iMatrix

C2_Witness ==
  /\ matCall.n >= 1
  /\ matCall.from = matCall.to
  /\ matCall.from # NoMatrix
  /\ matCall.from # iMatrix
  /\ Invertible(matCall.from)
  /\ matCall.there = iMatrix

\* C3: for invertible A and B, calcPlaneChangeMatrix(A, B) multiplied with
\* calcPlaneChangeMatrix(B, A), in either order, is the identity matrix.
C3_InverseConsistency ==
  (matCall.n = 2 /\ Invertible(OrIdentity(matCall.from))
     /\ Invertible(OrIdentity(matCall.to)))
    => /\ multiplyTransformMatrices(matCall.there, matCall.back) = iMatrix
       /\ multiplyTransformMatrices(matCall.back, matCall.there) = iMatrix

C3_Witness ==
  /\ matCall.n = 2
  /\ matCall.from # NoMatrix /\ matCall.to # NoMatrix
  /\ matCall.from # matCall.to
  /\ matCall.there # iMatrix
  /\ matCall.there # matCall.back
  /\ multiplyTransformMatrices(matCall.there, matCall.back) = iMatrix

ValidRelations == {"child", "sibling"}

IsRelativeCall == ptCall.op = "transformPointRelativeToCanvas"

C5_NoOpOnEqualRelation ==
  (IsRelativeCall /\ ptCall.before = ptCall.after
     /\ ptCall.before \in ValidRelations)
    => /\ ptCall.ret.kind = "return"
       /\ ptCall.ret.point = ptCall.point

C5_Witness ==
  /\ IsRelativeCall
  /\ ptCall.before = "child" /\ ptCall.after = "child"
  /\ canvas.viewportTransform = Singular
  /\ ptCall.ret.kind = "return"
  /\ IsFinite(ptCall.ret.point.x)

SameCoordinates(p, q) == p.x = q.x /\ p.y = q.y

\* C6: child -> sibling returns the image of the point under the canvas'
\* viewportTransform; sibling -> child returns the point whose image under an
\* invertible viewportTransform is the given point; sibling -> child followed by
\* child -> sibling on the result returns the coordinates of the first point.
C6_Direction ==
  /\ (IsRelativeCall /\ ptCall.before = "child" /\ ptCall.after = "sibling")
       => /\ ptCall.ret.kind = "return"
          /\ SameCoordinates(ptCall.ret.point,
                             transform(ptCall.point, canvas.viewportTransform, 0))
  /\ (IsRelativeCall /\ ptCall.before = "sibling" /\ ptCall.after = "child"
        /\ Invertible(canvas.viewportTransform))
       => /\ ptCall.ret.kind = "return"
          /\ SameCoordinates(ptCall.point,
                             transform(ptCall.ret.point, canvas.viewportTransform, 0))
  /\ (IsRelativeCall /\ ptCall.before = "child" /\ ptCall.after = "sibling"
        /\ ptPrev.op = "transformPointRelativeToCanvas"
        /\ ptPrev.before = "sibling" /\ ptPrev.after = "child"
        /\ ptPrev.ret.kind = "return" /\ ptCall.point = ptPrev.ret.point
        /\ Invertible(canvas.viewportTransform))
       => SameCoordinates(ptCall.ret.point, ptPrev.point)

C6_Witness ==
  /\ IsRelativeCall /\ ptCall.before = "child" /\ ptCall.after = "sibling"
  /\ ptPrev.op = "transformPointRelativeToCanvas"
  /\ ptPrev.before = "sibling" /\ ptPrev.after = "child"
  /\ ptPrev.ret.kind = "return" /\ ptCall.point = ptPrev.ret.point
  /\ canvas.viewportTransform # iMatrix
  /\ Invertible(canvas.viewportTransform)
  /\ ~SameCoordinates(ptPrev.point, ptPrev.ret.point)
  /\ SameCoordinates(ptCall.ret.point, ptPrev.point)

\* C7: with fewer than three arguments the source plane is the object's group
\* (the root when it has none) and the second argument the destination; with
\* three arguments the source plane is the second argument, the root when it is
\* undefined, whatever the object's group is.
C7_SourcePlaneSelection ==
  /\ (sent.nargs \in {1, 2}) =>
       sent.ret.transform =
         multiplyTransformMatrices(
           invertTransform(CumulativeBefore(sent.arg1)),
           CumulativeBefore(sent.before["obj"].group))
  /\ (sent.nargs = 3) =>
       sent.ret.transform =
         multiplyTransformMatrices(
           invertTransform(CumulativeBefore(sent.arg2)),
           CumulativeBefore(sent.arg1))

C7_Witness ==
  /\ sent.nargs = 3
  /\ sent.arg1 = UNDEF
  /\ sent.arg2 # UNDEF
  /\ sent.before["obj"].group \notin {UNDEF, sent.arg2}
  /\ sent.ret.transform = invertTransform(CumulativeBefore(sent.arg2))

\* C8: the angle the call returns, and the object has after it, is the
\* object's angle before the call minus the source plane's cumulative angle
\* plus the destination plane's, an absent plane counting 0, not normalised;
\* the transform it returns is the plane change matrix of the two planes'
\* cumulative transforms.
C8_AngleBookkeeping ==
  (sent.nargs > 0)
    => /\ sent.ret.angle =
            sent.before["obj"].angle - AngleBefore(SentFrom) + AngleBefore(SentTo)
       /\ nodes["obj"].angle = sent.ret.angle
       /\ sent.ret.transform =
            multiplyTransformMatrices(invertTransform(CumulativeBefore(SentTo)),
                                      CumulativeBefore(SentFrom))

C8_Witness ==
  /\ sent.nargs > 0
  /\ SentFrom # UNDEF /\ SentTo # UNDEF
  /\ AngleBefore(SentFrom) # AngleBefore(SentTo)
  /\ sent.ret.angle < 0
  /\ nodes["obj"].angle = sent.ret.angle

\* C9: a call leaves every group of the scene as it was and leaves the object
\* in the group it was in; only the object's position, scale and angle change.
C9_Frame ==
  (sent.nargs > 0 /\ ~sent.placed)
    => /\ \A id \in Planes : nodes[id] = sent.before[id]
       /\ nodes["obj"].group = sent.before["obj"].group

C9_Witness ==
  /\ sent.nargs = 3 /\ ~sent.placed
  /\ sent.arg1 # UNDEF /\ sent.arg2 # UNDEF /\ sent.arg1 # sent.arg2
  /\ nodes["obj"] # sent.before["obj"]
  /\ nodes["obj"].group # sent.arg2

\* C10: with the destination absent the call returns the source plane's
\* cumulative transform and the object's new own matrix is that transform
\* composed with its old own matrix, so that an object at (50, 50) in a group
\* translating by (30, 30) ends at (80, 80); with both planes absent the
\* returned matrix is the identity and the object's own matrix and angle are
\* unchanged.
C10_AbsentPlaneMeansRoot ==
  (sent.nargs > 0 /\ ~sent.placed /\ SentTo = UNDEF)
    => /\ sent.ret.transform = CumulativeBefore(SentFrom)
       /\ calcOwnMatrix(nodes["obj"]) =
            multiplyTransformMatrices(CumulativeBefore(SentFrom),
                                      calcOwnMatrix(sent.before["obj"]))
       /\ (SentFrom = UNDEF)
            => /\ sent.ret.transform = iMatrix
               /\ calcOwnMatrix(nodes["obj"]) = calcOwnMatrix(sent.before["obj"])
               /\ nodes["obj"].angle = sent.before["obj"].angle

====
